---- MODULE Spec2Model ----
(***************************************************************************)
(* The session agent orchestration pipeline of claude-mem's OpenCode       *)
(* integration: AzureOpenAIAgent.startSession and its helpers              *)
(* (src/OpenCode/install.sh, lines 99-441).                                *)
(*                                                                         *)
(* One session object is driven by the caller through passes of            *)
(* startSession.  Every `await` of the async method is a position of the   *)
(* single control flow (pc); the code between two awaits is one action.    *)
(***************************************************************************)
EXTENDS Integers, Sequences, FiniteSets, TLC

\* ------------------------------------------------------------------ bounds
\* prompts appended to one session's history over a run: init and
\* continuation prompts of every pass and fallback, and one per work item
MaxTurns == 3

\* ------------------------------------------------------- program constants
CHARS_PER_TOKEN_ESTIMATE == 4
MAX_AZURE_CONTEXT_TOKENS == 128000

\* ------------------------------------------------------------------- texts
\* A text is known by what produced it (tag, ref) and by its length in
\* UTF-16 code units, the only attribute of a text the agent computes with.
Text(tag, ref, length) == [tag |-> tag, ref |-> ref, length |-> length]

\* the empty string ''
EmptyText == Text("", 0, 0)

\* JavaScript truthiness of a string: '' is falsy
Truthy(text) == text.length > 0

\* lengths of the variable part of a prompt (tool input/output, last
\* assistant message): 1 token, ceiling - 1 tokens, ceiling + 1 tokens
TextLens == {3, 511996, 512001}

\* lengths of the content a backend returns ('' included)
ReplyLens == {0, 3}

\* usage.total_tokens of a backend reply: <<>> is `undefined`
TotalTokens == {<<>>, <<90>>, <<100>>}

\* x || 0 for an optional number
OrZero(x) == IF x = <<>> THEN 0 ELSE x[1]

\* role-tagged entry of session.conversationHistory
Entry(role, content) == [role |-> role, content |-> content]

\* ---------------------------------------------------------- pure functions
\* estimateTokens: Math.ceil(text.length / CHARS_PER_TOKEN_ESTIMATE)
estimateTokens(text) ==
    (text.length + CHARS_PER_TOKEN_ESTIMATE - 1) \div CHARS_PER_TOKEN_ESTIMATE

\* history.reduce((sum, m) => sum + this.estimateTokens(m.content), 0)
RECURSIVE SumTokens(_)
SumTokens(history) ==
    IF history = <<>> THEN 0
    ELSE estimateTokens(Head(history).content) + SumTokens(Tail(history))

\* the loop of truncateHistory, from index i down to 1, with the entries kept
\* so far (truncated) and their token count (tokenCount)
RECURSIVE TruncateLoop(_, _, _, _)
TruncateLoop(history, i, truncated, tokenCount) ==
    IF i < 1 THEN truncated
    ELSE LET msgTokens == estimateTokens(history[i].content)
         IN  IF tokenCount + msgTokens > MAX_AZURE_CONTEXT_TOKENS
             THEN truncated
             ELSE TruncateLoop(history, i - 1, <<history[i]>> \o truncated,
                               tokenCount + msgTokens)

\* a plausible slip in the loop: the entry that crosses the ceiling is still
\* kept, and the loop stops only after it
RECURSIVE TruncateLoopOffByOne(_, _, _, _)
TruncateLoopOffByOne(history, i, truncated, tokenCount) ==
    IF i < 1 \/ tokenCount > MAX_AZURE_CONTEXT_TOKENS THEN truncated
    ELSE TruncateLoopOffByOne(history, i - 1, <<history[i]>> \o truncated,
                              tokenCount + estimateTokens(history[i].content))

truncateHistoryOffByOne(history) ==
    IF SumTokens(history) <= MAX_AZURE_CONTEXT_TOKENS THEN history
    ELSE TruncateLoopOffByOne(history, Len(history), <<>>, 0)

\* truncateHistory: the whole history when it fits, else the newest entries
\* that fit
truncateHistory(history) ==
    IF SumTokens(history) <= MAX_AZURE_CONTEXT_TOKENS THEN history
    ELSE TruncateLoop(history, Len(history), <<>>, 0)

\* conversationToOpenAIMessages: every role but 'assistant' is sent as 'user'
conversationToOpenAIMessages(history) ==
    [i \in 1..Len(history) |->
        [role    |-> IF history[i].role = "assistant" THEN "assistant"
                     ELSE "user",
         content |-> history[i].content]]

\* the largest power of two that is <= n, for n >= 1
RECURSIVE Pow2Floor(_)
Pow2Floor(n) == IF n < 2 THEN 1 ELSE 2 * Pow2Floor(n \div 2)

\* Math.floor(tokensUsed * 0.7) in IEEE-754 double arithmetic.  The double
\* nearest to 0.7 is 0.7 - 0.4 * 2^-53, so the exact product lies below 7t/10
\* by (2/7) * (N / 2^e) units in the last place of N = 7t/10, 2^e <= N < 2^(e+1).
\* When 7t/10 is a whole number N in the top quarter of its binade
\* (N > 1.75 * 2^e) the product rounds to the double below N and the floor is
\* N - 1 (t = 90 gives 62); in every other case the floor is that of 7t/10.
MathFloorTimes07(t) ==
    LET N == (7 * t) \div 10
    IN  IF t % 10 = 0 /\ N > 0 /\ 4 * N > 7 * Pow2Floor(N) THEN N - 1 ELSE N

\* Math.floor(tokensUsed * 0.3) in IEEE-754 double arithmetic.  The double
\* nearest to 0.3 is 0.3 - 0.2 * 2^-54, the product lies below 3t/10 by less
\* than a third of a unit in the last place and rounds back to 3t/10 whenever
\* that is a whole number: the floor is always that of 3t/10.
MathFloorTimes03(t) == (3 * t) \div 10

\* ------------------------------------------------------------------- state
VARIABLES
    \* the ActiveSession object
    memorySessionId,          \* the conversational handle, NoHandle when unset
    lastPromptNumber,
    conversationHistory,      \* sequence of Entry
    cumulativeInputTokens,
    cumulativeOutputTokens,
    processingMessageIds,     \* sequence of _persistentId
    \* the agents
    fallbackAgent,            \* agent -> its fallbackAgent field, "null" when unset
    \* the control flow of the pass
    pc,                       \* position of the flow
    agent,                    \* the agent whose startSession is running
    config,                   \* the configuration that startSession loaded
    lastCwd,                  \* the local lastCwd, "" when undefined
    message,                  \* the loop variable: the item dequeued last
    error,                    \* the error the catch block received, "none" if none
    \* the environment
    request,                  \* the last request sent to a backend
    inFlight,                 \* requests sent whose fetch has not settled
    delivered,                \* work items the iterator has yielded
    processed,                \* the calls of processAgentResponse
    \* history variables of the verification
    turns,                    \* every prompt appended, with the reply it received
    turnStart                 \* history and counters when the current turn began

\* ------------------------------------------- state of the plugin (claude-mem.js)
VARIABLES
    \* the module-level maps
    messageTextCache,         \* message id -> accumulated text
    pendingUserMessages,      \* message id -> [sessionID, project]
    messageRoleCache,         \* message id -> role
    sessionLastAssistant,     \* session id -> text
    sessionLastSummarized,    \* session id -> text
    toolInputCache,           \* call id -> args
    \* the handlers and the worker
    awaiting,                 \* the handler invocations suspended at an await
    requests,                 \* every request sent to the worker, in order
    prompts,                  \* the prompts that tui.prompt.append has handled
    thrown,                   \* a handler invocation has rejected
    events                    \* the events and hooks delivered so far

plugin == <<messageTextCache, pendingUserMessages, messageRoleCache,
            sessionLastAssistant, sessionLastSummarized, toolInputCache,
            awaiting, requests, prompts, thrown, events>>

session == <<memorySessionId, lastPromptNumber, conversationHistory,
             cumulativeInputTokens, cumulativeOutputTokens,
             processingMessageIds>>

vars == <<memorySessionId, lastPromptNumber, conversationHistory,
          cumulativeInputTokens, cumulativeOutputTokens, processingMessageIds,
          fallbackAgent, pc, agent, config, lastCwd, message, error, request,
          inFlight, delivered, processed, turns, turnStart, plugin>>

\* the primary agent and the agent that setFallbackAgent installs
Agents == {"AzureOpenAI", "Fallback"}

NoHandle == <<>>

\* no reply (the call is in flight, or it failed)
NoReply == Text("none", 0, 0)

NoRequest == [agent |-> "null", history |-> <<>>, messages |-> <<>>]

\* what getAzureOpenAIConfig can return: every field present or ''
Configs == [apiKey : {"", "key"}, endpoint : {"", "https://e/"}, model : {"", "gpt"}]

NoMessage == [_persistentId |-> 0, type |-> "none", prompt_number |-> <<>>,
              cwd |-> "", length |-> 0, timestamp |-> 0]

NoConfig == [apiKey |-> "", endpoint |-> "", model |-> ""]

\* the await positions of startSession
CallStates == {"initCall", "obsCall", "summaryCall"}
AwaitStates == CallStates \cup {"nextItem"}
TerminalStates == {"completed", "failed", "aborted"}

Snapshot == [history |-> conversationHistory,
             input   |-> cumulativeInputTokens,
             output  |-> cumulativeOutputTokens,
             prompt  |-> lastPromptNumber,
             ids     |-> processingMessageIds]

\* ------------------------------------------ values of the plugin state
\* the events and hooks delivered in a run
MaxEvents == 3

\* a JavaScript Map: a function whose domain is the set of keys present
EmptyMap == [k \in {} |-> <<>>]
MapSet(map, k, v) ==
    [x \in DOMAIN map \cup {k} |-> IF x = k THEN v ELSE map[x]]
MapDelete(map, k) == [x \in DOMAIN map \ {k} |-> map[x]]
\* map.get(k) as a sequence: <<v>> when the key is present, <<>> for undefined
MapGet(map, k) == IF k \in DOMAIN map THEN <<map[k]>> ELSE <<>>

\* a string is the sequence of its characters; undefined and "" are both <<>>
\* where the code only tests truthiness
Blank == " "
RECURSIVE TrimStart(_)
TrimStart(str) ==
    IF str # <<>> /\ Head(str) = Blank THEN TrimStart(Tail(str)) ELSE str
RECURSIVE TrimEnd(_)
TrimEnd(str) ==
    IF str # <<>> /\ str[Len(str)] = Blank
    THEN TrimEnd(SubSeq(str, 1, Len(str) - 1)) ELSE str
\* String.prototype.trim
Trim(str) == TrimEnd(TrimStart(str))
\* `x && x.trim()` as a condition
NonBlank(str) == str # <<>> /\ Trim(str) # <<>>
\* `map.get(k) || ""`
GetText(map, k) == IF k \in DOMAIN map THEN map[k] ELSE <<>>

PluginInit ==
    /\ messageTextCache = EmptyMap
    /\ pendingUserMessages = EmptyMap
    /\ messageRoleCache = EmptyMap
    /\ sessionLastAssistant = EmptyMap
    /\ sessionLastSummarized = EmptyMap
    /\ toolInputCache = EmptyMap
    /\ awaiting = {}
    /\ requests = <<>>
    /\ prompts = <<>>
    /\ thrown = FALSE
    /\ events = 0

Init ==
    /\ PluginInit
    /\ memorySessionId = NoHandle
    /\ lastPromptNumber = 1
    /\ conversationHistory = <<>>
    /\ cumulativeInputTokens = 0
    /\ cumulativeOutputTokens = 0
    /\ processingMessageIds = <<>>
    /\ fallbackAgent = [a \in Agents |-> "null"]
    /\ pc = "idle"
    /\ agent = "AzureOpenAI"
    /\ config = NoConfig
    /\ lastCwd = ""
    /\ message = NoMessage
    /\ error = "none"
    /\ request = NoRequest
    /\ inFlight = 0
    /\ delivered = 0
    /\ processed = <<>>
    /\ turns = <<>>
    /\ turnStart = [history |-> <<>>, input |-> 0, output |-> 0, prompt |-> 1,
                    ids |-> <<>>]

\* ------------------------------------------------- external collaborators
\* isAbortError (agents/index.js)
isAbortError(err) == err = "abort"

\* shouldFallbackToClaude (agents/index.js): a configuration, transport or
\* provider error of the current backend is retried on the fallback; a
\* cancellation and a failed precondition are not
shouldFallbackToClaude(err) == err \in {"config", "remote", "provider"}

\* buildInitPrompt / buildContinuationPrompt (sdk/prompts.js)
buildInitPrompt == Text("init", 1, 3)
buildContinuationPrompt(promptNumber) == Text("continuation", promptNumber, 3)

\* buildObservationPrompt / buildSummaryPrompt (sdk/prompts.js): the text
\* built from one work item
buildObservationPrompt(m) == Text("observation", m._persistentId, m.length)
buildSummaryPrompt(m) == Text("summary", m._persistentId, m.length)

\* the work items getMessageIterator can yield next: an observation with or
\* without prompt_number and cwd, or a summarize, each with the time it was
\* queued
WorkItems(id) ==
    { [_persistentId |-> id, type |-> "observation", prompt_number |-> <<>>,
       cwd |-> "", length |-> 3, timestamp |-> 1000 + id],
      [_persistentId |-> id, type |-> "observation", prompt_number |-> <<2>>,
       cwd |-> "/a", length |-> 511996, timestamp |-> 1000 + id],
      [_persistentId |-> id, type |-> "observation", prompt_number |-> <<1>>,
       cwd |-> "/b", length |-> 512001, timestamp |-> 1000 + id],
      [_persistentId |-> id, type |-> "summarize", prompt_number |-> <<>>,
       cwd |-> "", length |-> 3, timestamp |-> 1000 + id],
      [_persistentId |-> id, type |-> "summarize", prompt_number |-> <<>>,
       cwd |-> "/a", length |-> 511996, timestamp |-> 1000 + id] }

\* what the backend can answer to the request of turn `ref`: a non-2xx
\* response, a payload with an error member, or a completion with or without
\* content and with or without usage
HttpResponses(ref) ==
    { [ok |-> FALSE, hasError |-> FALSE, content |-> EmptyText, total_tokens |-> <<>>],
      [ok |-> TRUE,  hasError |-> TRUE,  content |-> EmptyText, total_tokens |-> <<>>] }
    \cup
    { [ok |-> TRUE, hasError |-> FALSE,
       content |-> IF l = 0 THEN EmptyText ELSE Text("reply", ref, l),
       total_tokens |-> t] : l \in ReplyLens, t \in TotalTokens }

\* ------------------------------------------------- steps of startSession
\* the two configuration tests at the head of startSession
ConfigErrorKeyOnly(cfg) == cfg.apiKey = ""

ConfigError(cfg) == cfg.apiKey = "" \/ (cfg.endpoint = "" \/ cfg.model = "")

\* the synthetic memorySessionId, generated only when the session has none
GenerateNothing(handle, a, now) == handle

GenerateAlways(handle, a, now) == <<a, now>>

GenerateMemorySessionId(handle, a, now) ==
    IF handle = NoHandle THEN <<a, now>> ELSE handle

\* Date.now(): the clock advances with every request of the session
Now == Len(turns) + 1

\* the catch block of startSession: where the flow goes with error err
CatchAndContinue(a, err) ==
    IF isAbortError(err) THEN "aborted"
    ELSE IF shouldFallbackToClaude(err) /\ fallbackAgent[a] # "null" THEN "handoff"
    ELSE "nextItem"

CatchFallbackFirst(a, err) ==
    IF fallbackAgent[a] # "null" THEN "handoff"
    ELSE IF isAbortError(err) THEN "aborted" ELSE "failed"

Catch(a, err) ==
    IF isAbortError(err) THEN "aborted"
    ELSE IF shouldFallbackToClaude(err) /\ fallbackAgent[a] # "null" THEN "handoff"
    ELSE "failed"

\* queryAzureOpenAIMultiTurn up to the fetch: the request sent for a history
Query(a, history) ==
    [agent    |-> a,
     history  |-> history,
     messages |-> conversationToOpenAIMessages(truncateHistory(history))]

\* queryAzureOpenAIMultiTurn after the fetch: an error thrown, or the content
\* and tokensUsed returned for the response data
QueryResult(data) ==
    IF ~data.ok
    THEN [throw |-> "remote", content |-> EmptyText, tokensUsed |-> <<>>]
    ELSE IF data.hasError
    THEN [throw |-> "provider", content |-> EmptyText, tokensUsed |-> <<>>]
    ELSE IF ~Truthy(data.content)
    THEN [throw |-> "none", content |-> EmptyText, tokensUsed |-> <<>>]
    ELSE [throw |-> "none", content |-> data.content, tokensUsed |-> data.total_tokens]

\* slips in the reply branch: the entry is pushed whatever the content / only
\* when the backend reported usage
ReplyHistoryAlways(history, r) == Append(history, Entry("assistant", r.content))

ReplyHistoryMetered(history, r) ==
    IF OrZero(r.tokensUsed) > 0 THEN Append(history, Entry("assistant", r.content))
    ELSE history

\* `if (response.content) { conversationHistory.push(assistant entry) ... }`
ReplyHistory(history, r) ==
    IF Truthy(r.content) THEN Append(history, Entry("assistant", r.content))
    ELSE history

\* `tokensUsed = response.tokensUsed || 0` inside the same branch
ReplyTokens(r) == IF Truthy(r.content) THEN OrZero(r.tokensUsed) ELSE 0

\* `cumulativeInputTokens += Math.floor(tokensUsed * 0.7)` inside the branch
ReplyInput(input, r) ==
    IF Truthy(r.content) THEN input + MathFloorTimes07(OrZero(r.tokensUsed))
    ELSE input

\* `cumulativeOutputTokens += Math.floor(tokensUsed * 0.3)` inside the branch
ReplyOutput(output, r) ==
    IF Truthy(r.content) THEN output + MathFloorTimes03(OrZero(r.tokensUsed))
    ELSE output

\* the error reaches the catch block
Throw(a, err) ==
    /\ error' = err
    /\ pc' = Catch(a, err)

\* a slip that would let truncation reach the stored history: the history is
\* replaced by what was sent
PushAndQueryTruncating(a, prompt, nextpc) ==
    /\ request' = Query(a, Append(conversationHistory, Entry("user", prompt)))
    /\ inFlight' = inFlight + 1
    /\ conversationHistory' =
          truncateHistory(Append(conversationHistory, Entry("user", prompt)))
    /\ turns' = Append(turns, [prompt |-> prompt, reply |-> NoReply, tokens |-> 0,
                                item |-> message'])
    /\ pc' = nextpc

\* a slip that would break the one-call-at-a-time discipline: the request is
\* sent but not awaited, and the loop goes on to the next item
PushAndQueryNoAwait(a, prompt, nextpc) ==
    /\ conversationHistory' = Append(conversationHistory, Entry("user", prompt))
    /\ request' = Query(a, conversationHistory')
    /\ inFlight' = inFlight + 1
    /\ turns' = Append(turns, [prompt |-> prompt, reply |-> NoReply, tokens |-> 0,
                                item |-> message'])
    /\ pc' = "nextItem"

\* a prompt is pushed and the whole history is sent to the backend of agent a;
\* the flow then awaits the fetch
PushAndQuery(a, prompt, nextpc) ==
    /\ conversationHistory' = Append(conversationHistory, Entry("user", prompt))
    /\ request' = Query(a, conversationHistory')
    /\ inFlight' = inFlight + 1
    /\ turns' = Append(turns, [prompt |-> prompt, reply |-> NoReply, tokens |-> 0,
                                item |-> message'])
    /\ pc' = nextpc

\* startSession of agent a up to its first await: configuration, synthetic
\* handle, init or continuation prompt, first request
StartBody(a, now) ==
    \E cfg \in Configs :
        /\ agent' = a
        /\ lastCwd' = ""
        /\ message' = NoMessage
        /\ turnStart' = Snapshot
        /\ config' = IF ConfigError(cfg) THEN NoConfig ELSE cfg
        /\ IF ConfigError(cfg)
           THEN /\ Throw(a, "config")
                /\ UNCHANGED <<session, request, inFlight, turns>>
           ELSE /\ memorySessionId' = GenerateMemorySessionId(memorySessionId, a, now)
                /\ PushAndQuery(a,
                                IF lastPromptNumber = 1 THEN buildInitPrompt
                                ELSE buildContinuationPrompt(lastPromptNumber),
                                "initCall")
                /\ error' = "none"
                /\ UNCHANGED <<lastPromptNumber, cumulativeInputTokens,
                               cumulativeOutputTokens, processingMessageIds>>
        /\ UNCHANGED <<fallbackAgent, delivered, processed>>
        /\ UNCHANGED plugin

\* setFallbackAgent, called once after construction
setFallbackAgent ==
    /\ pc = "idle"
    /\ fallbackAgent["AzureOpenAI"] = "null"
    /\ fallbackAgent' = [fallbackAgent EXCEPT !["AzureOpenAI"] = "Fallback"]
    /\ UNCHANGED <<session, pc, agent, config, lastCwd, message, error,
                   request, inFlight, delivered, processed, turns, turnStart>>
    /\ UNCHANGED plugin

\* the bound on the prompts of a run: agent a may append one more prompt, and
\* when a has a fallback agent a prompt is kept for the pass of the fallback,
\* so that a hand-off is never cut short by the bound
TurnsLeft(a) ==
    Len(turns) + (IF fallbackAgent[a] # "null" THEN 1 ELSE 0) < MaxTurns

\* single flow per session: the caller starts a pass only when no pass of the
\* session is running
CallerMayStart == pc \in {"idle"} \cup TerminalStates

\* the caller invokes startSession of the primary agent, on a fresh session or
\* after an earlier pass has ended
startSession ==
    /\ CallerMayStart
    /\ TurnsLeft("AzureOpenAI")
    /\ StartBody("AzureOpenAI", Now)

\* `return this.fallbackAgent.startSession(session, worker)`: the fallback
\* agent runs the same startSession contract on the handed-off session
fallbackStartSession ==
    /\ pc = "handoff"
    /\ TurnsLeft(fallbackAgent[agent])
    /\ StartBody(fallbackAgent[agent], Now)

\* what processAgentResponse can see of the session when it is called
Seen(history, input, output) ==
    [entries |-> Len(history), input |-> input, output |-> output]

\* a slip in the item branches: the processor is called only for a reply with
\* content, as after the init request
processAgentResponseIfContent(log, content, tokensUsed, originalTimestamp, cwd, seen) ==
    IF Truthy(content)
    THEN Append(log, [content |-> content, tokensUsed |-> tokensUsed,
                      timestamp |-> originalTimestamp, cwd |-> cwd,
                      seen |-> seen])
    ELSE log

\* `await processAgentResponse(content || '', session, ..., tokensUsed,
\* originalTimestamp, 'AzureOpenAI', lastCwd)`: the call is logged with its
\* arguments; a null timestamp is <<>>, an undefined cwd is ""
processAgentResponse(log, content, tokensUsed, originalTimestamp, cwd, seen) ==
    Append(log, [content |-> content, tokensUsed |-> tokensUsed,
                 timestamp |-> originalTimestamp, cwd |-> cwd, seen |-> seen])

\* session.earliestPendingTimestamp as getMessageIterator leaves it when it
\* yields item m: the time the item was queued
earliestPendingTimestamp(m) == <<m.timestamp>>

\* a slip at the head of the loop body: the id of the item is not recorded
RecordNoId(ids, m) == ids

\* `session.processingMessageIds.push(message._persistentId)`
RecordId(ids, m) == Append(ids, m._persistentId)

\* the turn's reply is recorded with the prompt it answers
RecordReply(r) ==
    [turns EXCEPT ![Len(turns)] =
        [@ EXCEPT !.reply = r.content, !.tokens = ReplyTokens(r)]]

\* the init request returns
initResponse ==
    /\ pc = "initCall"
    /\ inFlight' = inFlight - 1
    /\ \E data \in HttpResponses(Len(turns)) :
        LET r == QueryResult(data) IN
        IF r.throw # "none"
        THEN /\ Throw(agent, r.throw)
             /\ UNCHANGED <<session, processed, turns>>
        ELSE /\ conversationHistory' = ReplyHistory(conversationHistory, r)
             /\ cumulativeInputTokens' = ReplyInput(cumulativeInputTokens, r)
             /\ cumulativeOutputTokens' = ReplyOutput(cumulativeOutputTokens, r)
             /\ processed' =
                   IF Truthy(r.content)
                   THEN processAgentResponse(
                            processed, r.content, ReplyTokens(r), <<>>, "",
                            Seen(conversationHistory', cumulativeInputTokens',
                                 cumulativeOutputTokens'))
                   ELSE processed
             /\ turns' = RecordReply(r)
             /\ pc' = "nextItem"
             /\ UNCHANGED <<memorySessionId, lastPromptNumber,
                            processingMessageIds, error>>
    /\ UNCHANGED <<fallbackAgent, agent, config, lastCwd, message, request,
                   delivered, turnStart>>
    /\ UNCHANGED plugin

\* the iterator yields the next work item: the loop body up to the request
nextMessage ==
    /\ pc = "nextItem"
    /\ TurnsLeft(agent)
    /\ delivered' = delivered + 1
    /\ \E m \in WorkItems(delivered') :
        /\ message' = m
        /\ turnStart' = Snapshot
        /\ processingMessageIds' = RecordId(processingMessageIds, m)
        /\ lastCwd' = IF m.cwd # "" THEN m.cwd ELSE lastCwd
        /\ lastPromptNumber' =
              IF m.type = "observation" /\ m.prompt_number # <<>>
              THEN m.prompt_number[1] ELSE lastPromptNumber
        /\ IF memorySessionId = NoHandle
           THEN /\ Throw(agent, "precondition")
                /\ UNCHANGED <<conversationHistory, request, inFlight, turns>>
           ELSE /\ PushAndQuery(agent,
                                IF m.type = "observation"
                                THEN buildObservationPrompt(m)
                                ELSE buildSummaryPrompt(m),
                                IF m.type = "observation" THEN "obsCall"
                                ELSE "summaryCall")
                /\ error' = error
    /\ UNCHANGED <<memorySessionId, cumulativeInputTokens, cumulativeOutputTokens,
                   fallbackAgent, agent, config, processed>>
    /\ UNCHANGED plugin

\* the request of an observation or of a summarize item returns
ItemResponse(callpc) ==
    /\ pc = callpc
    /\ inFlight' = inFlight - 1
    /\ \E data \in HttpResponses(Len(turns)) :
        LET r == QueryResult(data) IN
        IF r.throw # "none"
        THEN /\ Throw(agent, r.throw)
             /\ UNCHANGED <<session, processed, turns>>
        ELSE /\ conversationHistory' = ReplyHistory(conversationHistory, r)
             /\ cumulativeInputTokens' = ReplyInput(cumulativeInputTokens, r)
             /\ cumulativeOutputTokens' = ReplyOutput(cumulativeOutputTokens, r)
             /\ processed' =
                   processAgentResponse(
                       processed, r.content, ReplyTokens(r),
                       earliestPendingTimestamp(message), lastCwd,
                       Seen(conversationHistory', cumulativeInputTokens',
                            cumulativeOutputTokens'))
             /\ turns' = RecordReply(r)
             /\ pc' = "nextItem"
             /\ UNCHANGED <<memorySessionId, lastPromptNumber,
                            processingMessageIds, error>>
    /\ UNCHANGED <<fallbackAgent, agent, config, lastCwd, message, request,
                   delivered, turnStart>>
    /\ UNCHANGED plugin

obsResponse == ItemResponse("obsCall")

summaryResponse == ItemResponse("summaryCall")

\* the iterator reports end-of-stream: the loop ends and the pass completes
endOfStream ==
    /\ pc = "nextItem"
    /\ pc' = "completed"
    /\ UNCHANGED <<session, fallbackAgent, agent, config, lastCwd, message,
                   error, request, inFlight, delivered, processed, turns, turnStart>>
    /\ UNCHANGED plugin

\* the enclosing operation is aborted while the flow awaits the backend or
\* the next item: an abort error reaches the catch block
abort ==
    /\ pc \in AwaitStates
    /\ Throw(agent, "abort")
    /\ inFlight' = IF pc \in CallStates THEN inFlight - 1 ELSE inFlight
    /\ UNCHANGED <<session, fallbackAgent, agent, config, lastCwd, message,
                   request, delivered, processed, turns, turnStart>>
    /\ UNCHANGED plugin

Next ==
    \/ setFallbackAgent
    \/ startSession
    \/ fallbackStartSession
    \/ initResponse
    \/ nextMessage
    \/ obsResponse
    \/ summaryResponse
    \/ endOfStream
    \/ abort

Spec == Init /\ [][Next]_vars

\* the scheduling of a pass: the backend always answers or fails, the hand-off
\* is a call made by the catch block, and the iterator of a finite queue
\* yields an item or reports end-of-stream
FairSpec ==
    /\ Spec
    /\ WF_vars(initResponse)
    /\ WF_vars(obsResponse)
    /\ WF_vars(summaryResponse)
    /\ WF_vars(fallbackStartSession)
    /\ WF_vars(nextMessage \/ endOfStream)

\* ------------------------------------------- the plugin (claude-mem.js)
\* the variables of the agent, which no handler of the plugin touches
agentVars == <<session, fallbackAgent, pc, agent, config, lastCwd, message,
               error, request, inFlight, delivered, processed, turns, turnStart>>

\* the inputs of the handlers: a user message and an assistant message of one
\* session, and two tool calls
UserMessage == "m1"
AssistantMessage == "m2"
MessageIds == {UserMessage, AssistantMessage}
SessionIds == {"s1"}
CallIds == {"c1", "c2"}
Project == "project"
PromptText == <<"p">>
Placeholder == <<"[user message]">>

\* event.properties.info of message.updated: the user message with no
\* summary, the placeholder summary or a summary, or the assistant message
Infos ==
    { [id |-> UserMessage, role |-> "user", sessionID |-> "s1", summary |-> t] :
        t \in {<<>>, Placeholder, <<"s">>} }
    \cup { [id |-> AssistantMessage, role |-> "assistant", sessionID |-> "s1",
            summary |-> <<>>] }

\* event.properties of message.part.updated: a text part with a delta, with a
\* blank or non-blank full text, or with neither, and a part that is not text
PartUpdates ==
    { [part |-> [type |-> "text", messageID |-> m, sessionID |-> "s1",
                 text |-> x[2]],
       delta |-> x[1]] :
        m \in MessageIds,
        x \in {<<<<"b">>, <<"a", "b">>>>, <<<<>>, <<Blank>>>>,
               <<<<>>, <<"a", "b">>>>, <<<<>>, <<>>>>} }
    \cup { [part |-> [type |-> "tool", messageID |-> AssistantMessage,
                      sessionID |-> "s1", text |-> <<>>],
            delta |-> <<>>] }

\* what the worker can answer to GET /api/context/inject
ContextBodies == {<<Blank>>, <<"c", Blank>>}

\* values of tool args and metadata: undefined, an object, a string holding
\* the JSON of an object, a string that is not JSON
Undefined == [type |-> "undefined", v |-> ""]
Object(v) == [type |-> "object", v |-> v]
JsonString(v) == [type |-> "json", v |-> v]
RawString(v) == [type |-> "raw", v |-> v]
EmptyObject == Object("{}")

\* `a ?? b`
Coalesce(a, b) == IF a = Undefined THEN b ELSE a

\* parseToolInput
parseToolInput(metadata) ==
    IF metadata = Undefined THEN EmptyObject
    ELSE IF metadata.type = "json" THEN Object(metadata.v)
    ELSE IF metadata.type = "raw" THEN [type |-> "object:raw", v |-> metadata.v]
    ELSE metadata

\* updateMessageText: the text cache after a part update
updateMessageText(cache, part, delta) ==
    IF part.type # "text" \/ part.messageID = "" THEN cache
    ELSE LET existing == GetText(cache, part.messageID)
             nextText == IF delta # <<>> THEN existing \o delta
                         ELSE IF part.text # <<>> THEN part.text
                         ELSE existing
         IN  MapSet(cache, part.messageID, nextText)

\* a request to the worker, sent while handling event number e
Request(handler, kind, sid, payload, e) ==
    [handler |-> handler, kind |-> kind, sid |-> sid, payload |-> payload,
     state |-> "pending", event |-> e]

\* a handler invocation suspended at `await` on request number req, with the
\* locals it needs when it resumes
Task(site, e, req, msg, sid, text, role) ==
    [site |-> site, event |-> e, req |-> req, msg |-> msg, sid |-> sid,
     text |-> text, role |-> role]

\* the request of task t settles
Settled(t, ok) ==
    [requests EXCEPT ![t.req].state = IF ok THEN "ok" ELSE "failed"]

\* a handler without its catch clause: the failure of the request rejects
\* the handler
TryNoCatch(ok) == IF ok THEN "ok" ELSE "thrown"

\* `try { await <request>; ... } catch { /* fail open */ }`: how the handler
\* goes on when the request has settled
TryCatch(ok) == IF ok THEN "ok" ELSE "caught"

\* the condition of session.idle with no memory of what was summarized
ShouldSummarizeAnyText(lastAssistant, lastSummarized) ==
    lastAssistant # <<>> /\ NonBlank(lastAssistant[1])

\* `lastAssistant && lastAssistant.trim() && lastAssistant !== lastSummarized`
\* on the results of the two Map.get calls
ShouldSummarize(lastAssistant, lastSummarized) ==
    /\ lastAssistant # <<>>
    /\ NonBlank(lastAssistant[1])
    /\ lastAssistant # lastSummarized

\* tui.prompt.append: the context is requested and the handler awaits it
OnPromptAppend ==
    /\ events' = events + 1
    /\ requests' = Append(requests, Request("tui.prompt.append", "inject", "", Project,
                                  events'))
    /\ awaiting' = awaiting \cup
          {Task("inject", events', Len(requests'), "", "", PromptText, "")}
    /\ UNCHANGED <<messageTextCache, pendingUserMessages, messageRoleCache,
                   sessionLastAssistant, sessionLastSummarized, toolInputCache,
                   prompts, thrown>>
    /\ UNCHANGED agentVars

\* the context request settles: a non-blank context is put before the prompt
contextInjectSettles ==
    \E t \in awaiting, ok \in BOOLEAN, body \in ContextBodies :
        /\ t.site = "inject"
        /\ requests' = Settled(t, ok)
        /\ awaiting' = awaiting \ {t}
        /\ LET context == Trim(body)
           IN  prompts' = Append(prompts,
                   [event |-> t.event, text |-> t.text, ok |-> ok,
                    result |-> IF TryCatch(ok) = "ok" /\ context # <<>>
                               THEN context \o <<"\n", "\n">> \o t.text
                               ELSE t.text])
        /\ thrown' = (thrown \/ TryCatch(ok) = "thrown")
        /\ UNCHANGED <<messageTextCache, pendingUserMessages, messageRoleCache,
                       sessionLastAssistant, sessionLastSummarized,
                       toolInputCache, events>>
        /\ UNCHANGED agentVars

\* message.updated: the role is cached; for a user message the session is
\* initialised with the cached text or with the summary, or the message is
\* left pending until its text arrives
OnMessageUpdated(info) ==
        /\ events' = events + 1
        /\ messageRoleCache' = MapSet(messageRoleCache, info.id, info.role)
        /\ LET cachedText == GetText(messageTextCache, info.id)
           IN  IF info.role = "user" /\ NonBlank(cachedText)
               THEN /\ requests' = Append(requests,
                          Request("message.updated", "init", info.sessionID, cachedText, events'))
                    /\ awaiting' = awaiting \cup
                          {Task("initCached", events', Len(requests'), info.id,
                                info.sessionID, cachedText, "")}
                    /\ UNCHANGED pendingUserMessages
               ELSE IF /\ info.role = "user"
                       /\ NonBlank(info.summary)
                       /\ info.summary # Placeholder
               THEN /\ requests' = Append(requests,
                          Request("message.updated", "init", info.sessionID, info.summary, events'))
                    /\ awaiting' = awaiting \cup
                          {Task("initSummary", events', Len(requests'), info.id,
                                info.sessionID, info.summary, "")}
                    /\ UNCHANGED pendingUserMessages
               ELSE /\ pendingUserMessages' =
                          IF info.role = "user"
                          THEN MapSet(pendingUserMessages, info.id,
                                      [sessionID |-> info.sessionID,
                                       project |-> Project])
                          ELSE pendingUserMessages
                    /\ UNCHANGED <<requests, awaiting>>
        /\ UNCHANGED <<messageTextCache, sessionLastAssistant,
                       sessionLastSummarized, toolInputCache, prompts, thrown>>
        /\ UNCHANGED agentVars

\* `if (role === "assistant" && sessionId && text) sessionLastAssistant.set(...)`
SetLastAssistant(map, role, sessionId, text) ==
    IF role = "assistant" /\ sessionId # "" /\ text # <<>>
    THEN MapSet(map, sessionId, text) ELSE map

\* message.part.updated: the text is accumulated; a pending user message whose
\* text has arrived initialises the session; the text of an assistant message
\* becomes the last assistant text of the session
OnMessagePartUpdated(u) ==
        LET id      == u.part.messageID
            cache   == updateMessageText(messageTextCache, u.part, u.delta)
            pending == MapGet(pendingUserMessages, id)
            text    == GetText(cache, id)
            role    == IF id \in DOMAIN messageRoleCache
                       THEN messageRoleCache[id] ELSE ""
        IN  /\ events' = events + 1
            /\ messageTextCache' = cache
            /\ IF pending # <<>> /\ NonBlank(text)
               THEN /\ requests' = Append(requests,
                          Request("message.part.updated", "init", pending[1].sessionID, text, events'))
                    /\ awaiting' = awaiting \cup
                          {Task("initPending", events', Len(requests'), id,
                                u.part.sessionID, text, role)}
                    /\ UNCHANGED sessionLastAssistant
               ELSE /\ sessionLastAssistant' =
                          SetLastAssistant(sessionLastAssistant, role,
                                           u.part.sessionID, text)
                    /\ UNCHANGED <<requests, awaiting>>
            /\ UNCHANGED <<pendingUserMessages, messageRoleCache,
                           sessionLastSummarized, toolInputCache, prompts,
                           thrown>>
            /\ UNCHANGED agentVars

\* a session-init request settles and the handler that sent it goes on
sessionInitSettles ==
    \E t \in awaiting, ok \in BOOLEAN :
        /\ t.site \in {"initCached", "initSummary", "initPending"}
        /\ requests' = Settled(t, ok)
        /\ awaiting' = awaiting \ {t}
        /\ thrown' = (thrown \/ TryCatch(ok) = "thrown")
        /\ messageTextCache' =
              IF \/ t.site = "initCached" /\ TryCatch(ok) = "ok"
                 \/ t.site = "initPending"
              THEN MapDelete(messageTextCache, t.msg)
              ELSE messageTextCache
        /\ pendingUserMessages' =
              IF t.site = "initPending"
              THEN MapDelete(pendingUserMessages, t.msg)
              ELSE pendingUserMessages
        /\ sessionLastAssistant' =
              IF t.site = "initPending" /\ TryCatch(ok) # "thrown"
              THEN SetLastAssistant(sessionLastAssistant, t.role, t.sid, t.text)
              ELSE sessionLastAssistant
        /\ UNCHANGED <<messageRoleCache, sessionLastSummarized, toolInputCache,
                       prompts, events>>
        /\ UNCHANGED agentVars

\* message.removed
OnMessageRemoved(messageId) ==
        /\ events' = events + 1
        /\ messageTextCache' = MapDelete(messageTextCache, messageId)
        /\ messageRoleCache' = MapDelete(messageRoleCache, messageId)
        /\ pendingUserMessages' = MapDelete(pendingUserMessages, messageId)
        /\ UNCHANGED <<sessionLastAssistant, sessionLastSummarized,
                       toolInputCache, awaiting, requests, prompts, thrown>>
        /\ UNCHANGED agentVars

\* session.idle up to its first await: the summarize request when the last
\* assistant text calls for one, else the complete request; nothing without a
\* session id
OnSessionIdle(sessionId) ==
        /\ events' = events + 1
        /\ IF sessionId = ""
           THEN UNCHANGED <<requests, awaiting>>
           ELSE LET lastAssistant == MapGet(sessionLastAssistant, sessionId)
                    lastSummarized == MapGet(sessionLastSummarized, sessionId)
                IN  IF ShouldSummarize(lastAssistant, lastSummarized)
                    THEN /\ requests' = Append(requests,
                               Request("session.idle", "summarize", sessionId, lastAssistant[1],
                                       events'))
                         /\ awaiting' = awaiting \cup
                               {Task("summarize", events', Len(requests'), "",
                                     sessionId, lastAssistant[1], "")}
                    ELSE /\ requests' = Append(requests,
                               Request("session.idle", "complete", sessionId, <<>>, events'))
                         /\ awaiting' = awaiting \cup
                               {Task("complete", events', Len(requests'), "",
                                     sessionId, <<>>, "")}
        /\ UNCHANGED <<messageTextCache, pendingUserMessages, messageRoleCache,
                       sessionLastAssistant, sessionLastSummarized,
                       toolInputCache, prompts, thrown>>
        /\ UNCHANGED agentVars

\* a slip: the session is completed only when the summarize succeeded
CompleteFollowsSuccess(outcome) == outcome = "ok"

\* the second try block of session.idle comes after the first one's catch:
\* the complete request is sent unless the handler has rejected
CompleteFollows(outcome) == outcome # "thrown"

\* the summarize request of session.idle settles: on success the text is
\* remembered as summarized; then the complete request is sent
summarizeSettles ==
    \E t \in awaiting, ok \in BOOLEAN :
        /\ t.site = "summarize"
        /\ thrown' = (thrown \/ TryCatch(ok) = "thrown")
        /\ sessionLastSummarized' =
              IF TryCatch(ok) = "ok"
              THEN MapSet(sessionLastSummarized, t.sid, t.text)
              ELSE sessionLastSummarized
        /\ IF ~CompleteFollows(TryCatch(ok))
           THEN /\ requests' = Settled(t, ok)
                /\ awaiting' = awaiting \ {t}
           ELSE /\ requests' = Append(Settled(t, ok),
                                      Request("session.idle", "complete", t.sid, <<>>, t.event))
                /\ awaiting' = (awaiting \ {t}) \cup
                      {Task("complete", t.event, Len(requests'), "", t.sid,
                            <<>>, "")}
        /\ UNCHANGED <<messageTextCache, pendingUserMessages, messageRoleCache,
                       sessionLastAssistant, toolInputCache, prompts, events>>
        /\ UNCHANGED agentVars

\* session.deleted: the complete request, nothing without a session id
OnSessionDeleted(sessionId) ==
        /\ events' = events + 1
        /\ IF sessionId = ""
           THEN UNCHANGED <<requests, awaiting>>
           ELSE /\ requests' = Append(requests,
                      Request("session.deleted", "complete", sessionId, <<>>, events'))
                /\ awaiting' = awaiting \cup
                      {Task("complete", events', Len(requests'), "", sessionId,
                            <<>>, "")}
        /\ UNCHANGED <<messageTextCache, pendingUserMessages, messageRoleCache,
                       sessionLastAssistant, sessionLastSummarized,
                       toolInputCache, prompts, thrown>>
        /\ UNCHANGED agentVars

\* the complete request of session.idle or session.deleted settles
completeSettles ==
    \E t \in awaiting, ok \in BOOLEAN :
        /\ t.site = "complete"
        /\ requests' = Settled(t, ok)
        /\ awaiting' = awaiting \ {t}
        /\ thrown' = (thrown \/ TryCatch(ok) = "thrown")
        /\ UNCHANGED <<messageTextCache, pendingUserMessages, messageRoleCache,
                       sessionLastAssistant, sessionLastSummarized,
                       toolInputCache, prompts, events>>
        /\ UNCHANGED agentVars

\* a slip: one slot for the args of the running call instead of one per callID
OnToolExecuteBeforeOneSlot(callID, args) ==
        /\ events' = events + 1
        /\ toolInputCache' = MapSet(EmptyMap, callID,
                                    Coalesce(args, EmptyObject))
        /\ UNCHANGED <<messageTextCache, pendingUserMessages, messageRoleCache,
                       sessionLastAssistant, sessionLastSummarized, awaiting,
                       requests, prompts, thrown>>
        /\ UNCHANGED agentVars

\* tool.execute.before: `toolInputCache.set(input.callID, output?.args ?? {})`
OnToolExecuteBefore(callID, args) ==
        /\ events' = events + 1
        /\ toolInputCache' = MapSet(toolInputCache, callID,
                                    Coalesce(args, EmptyObject))
        /\ UNCHANGED <<messageTextCache, pendingUserMessages, messageRoleCache,
                       sessionLastAssistant, sessionLastSummarized, awaiting,
                       requests, prompts, thrown>>
        /\ UNCHANGED agentVars

\* tool.execute.after up to its await: the cached args are taken out of the
\* cache and the observation is posted
OnToolExecuteAfter(callID, metadata) ==
        LET cachedArgs == IF callID \in DOMAIN toolInputCache
                          THEN toolInputCache[callID] ELSE Undefined
            toolInput == parseToolInput(
                             Coalesce(cachedArgs, Coalesce(metadata, EmptyObject)))
        IN  /\ events' = events + 1
            /\ toolInputCache' = MapDelete(toolInputCache, callID)
            /\ requests' = Append(requests,
                  Request("tool.execute.after", "observation", "s1",
                          [callID |-> callID, tool_input |-> toolInput,
                           metadata |-> Coalesce(metadata, EmptyObject)],
                          events'))
            /\ awaiting' = awaiting \cup
                  {Task("observation", events', Len(requests'), callID, "s1",
                        <<>>, "")}
            /\ UNCHANGED <<messageTextCache, pendingUserMessages,
                           messageRoleCache, sessionLastAssistant,
                           sessionLastSummarized, prompts, thrown>>
            /\ UNCHANGED agentVars

\* the observation request of tool.execute.after settles
observationSettles ==
    \E t \in awaiting, ok \in BOOLEAN :
        /\ t.site = "observation"
        /\ requests' = Settled(t, ok)
        /\ awaiting' = awaiting \ {t}
        /\ thrown' = (thrown \/ TryCatch(ok) = "thrown")
        /\ UNCHANGED <<messageTextCache, pendingUserMessages, messageRoleCache,
                       sessionLastAssistant, sessionLastSummarized,
                       toolInputCache, prompts, events>>
        /\ UNCHANGED agentVars

\* the host delivers any event or hook, up to MaxEvents of them
tuiPromptAppend == events < MaxEvents /\ OnPromptAppend

messageUpdated ==
    \E info \in Infos : events < MaxEvents /\ OnMessageUpdated(info)

messagePartUpdated ==
    \E u \in PartUpdates : events < MaxEvents /\ OnMessagePartUpdated(u)

messageRemoved ==
    \E messageId \in MessageIds :
        events < MaxEvents /\ OnMessageRemoved(messageId)

sessionIdle ==
    \E sessionId \in SessionIds \cup {""} :
        events < MaxEvents /\ OnSessionIdle(sessionId)

sessionDeleted ==
    \E sessionId \in SessionIds \cup {""} :
        events < MaxEvents /\ OnSessionDeleted(sessionId)

toolExecuteBefore ==
    \E callID \in CallIds, args \in {Undefined, Object("args")} :
        events < MaxEvents /\ OnToolExecuteBefore(callID, args)

toolExecuteAfter ==
    \E callID \in CallIds,
       metadata \in {Undefined, JsonString("meta")} :
        events < MaxEvents /\ OnToolExecuteAfter(callID, metadata)

PluginNext ==
    \/ tuiPromptAppend
    \/ contextInjectSettles
    \/ messageUpdated
    \/ messagePartUpdated
    \/ sessionInitSettles
    \/ messageRemoved
    \/ sessionIdle
    \/ summarizeSettles
    \/ sessionDeleted
    \/ completeSettles
    \/ toolExecuteBefore
    \/ toolExecuteAfter
    \/ observationSettles

\* the plugin: the host delivers events and hooks, the worker answers
SpecPlugin == Init /\ [][PluginNext]_vars

\* the events about the assistant's replies in one session: the host
\* announces the assistant message, its text arrives in parts, the session
\* goes idle; up to MaxIdleEvents of them
MaxIdleEvents == 4

AssistantInfo == [id |-> AssistantMessage, role |-> "assistant",
                  sessionID |-> "s1", summary |-> <<>>]

AssistantParts == {u \in PartUpdates :
                      /\ u.part.messageID = AssistantMessage
                      /\ u.part.type = "text"
                      /\ u.delta # <<>> \/ u.part.text # <<>>}

assistantUpdated == events < MaxIdleEvents /\ OnMessageUpdated(AssistantInfo)

assistantPartUpdated ==
    \E u \in AssistantParts :
        events < MaxIdleEvents /\ OnMessagePartUpdated(u)

idle == events < MaxIdleEvents /\ OnSessionIdle("s1")

IdleNext ==
    \/ assistantUpdated
    \/ assistantPartUpdated
    \/ idle
    \/ summarizeSettles
    \/ completeSettles

SpecIdle == Init /\ [][IdleNext]_vars

\* the events about one user message, with a worker that answers every
\* request with success; up to MaxUserEvents of them
MaxUserEvents == 4

UserInfos == {info \in Infos : info.id = UserMessage}

UserParts == {u \in PartUpdates : u.part.messageID = UserMessage}

userUpdated ==
    \E info \in UserInfos : events < MaxUserEvents /\ OnMessageUpdated(info)

userPartUpdated ==
    \E u \in UserParts : events < MaxUserEvents /\ OnMessagePartUpdated(u)

\* sendSessionInit resolves
sessionInitSucceeds ==
    /\ sessionInitSettles
    /\ \A i \in 1..Len(requests') : requests'[i].state # "failed"

UserNext ==
    \/ userUpdated
    \/ userPartUpdated
    \/ sessionInitSucceeds

SpecUserMessage == Init /\ [][UserNext]_vars

\* the message events of one session, in any order: message.updated and
\* message.part.updated about the user message and the assistant message; up
\* to MaxMessageEvents of them
MaxMessageEvents == 3

infoUpdated ==
    \E info \in Infos : events < MaxMessageEvents /\ OnMessageUpdated(info)

partUpdated ==
    \E u \in PartUpdates :
        events < MaxMessageEvents /\ OnMessagePartUpdated(u)

MessagesNext ==
    \/ infoUpdated
    \/ partUpdated
    \/ sessionInitSettles

SpecMessages == Init /\ [][MessagesNext]_vars

\* the tool hooks of calls with distinct callIDs, interleaved in any order:
\* the host runs the before-hook of a call at most once and before its
\* after-hook, and the after-hook once; up to MaxToolEvents hooks
MaxToolEvents == 4

ToolArgs == {Undefined, Object("args")}

ToolMetadata ==
    {Undefined, Object("meta"), JsonString("meta"), RawString("meta")}

\* the after-hook of call callID has run: its observation has been posted
Finished(callID) ==
    \E i \in 1..Len(requests) :
        /\ requests[i].kind = "observation"
        /\ requests[i].payload.callID = callID

toolStarts ==
    \E callID \in CallIds, args \in ToolArgs :
        /\ events < MaxToolEvents
        /\ ~Finished(callID)
        /\ callID \notin DOMAIN toolInputCache
        /\ OnToolExecuteBefore(callID, args)

toolFinishes ==
    \E callID \in CallIds, metadata \in ToolMetadata :
        /\ events < MaxToolEvents
        /\ ~Finished(callID)
        /\ OnToolExecuteAfter(callID, metadata)

ToolsNext ==
    \/ toolStarts
    \/ toolFinishes
    \/ observationSettles

SpecTools == Init /\ [][ToolsNext]_vars

TypeOK ==
    /\ pc \in {"idle", "initCall", "nextItem", "obsCall", "summaryCall", "handoff"}
              \cup TerminalStates
    /\ agent \in Agents
    /\ delivered \in 0..MaxTurns
    /\ Len(turns) <= MaxTurns

\* ------------------------------------------------------------ properties
\* the history that a sequence of turns stands for: each prompt as a user
\* entry, directly followed by its reply as an assistant entry when the reply
\* has content
RECURSIVE ExpectedHistory(_)
ExpectedHistory(ts) ==
    IF ts = <<>> THEN <<>>
    ELSE <<Entry("user", Head(ts).prompt)>>
         \o (IF Truthy(Head(ts).reply)
             THEN <<Entry("assistant", Head(ts).reply)>> ELSE <<>>)
         \o ExpectedHistory(Tail(ts))

IsItemTurn(t) == t.prompt.tag \in {"observation", "summary"}

ItemTurns == SelectSeq(turns, IsItemTurn)

\* no backend call of the session has returned / has returned content so far
NoCallReturned == \A i \in 1..Len(turns) : turns[i].reply = NoReply
NoContentReturned == \A i \in 1..Len(turns) : ~Truthy(turns[i].reply)

\* C1: the conversation history is, in delivery order, the interleaving of the
\* appended prompts (one per delivered item, after the init or continuation
\* prompt of the pass) and the non-empty replies, each reply directly after the
\* prompt it answers.
C1_HistoryIsInterleaving ==
    /\ conversationHistory = ExpectedHistory(turns)
    /\ Len(ItemTurns) = delivered
    /\ \A i \in 1..Len(ItemTurns) : ItemTurns[i].prompt.ref = i
    /\ processingMessageIds = [i \in 1..delivered |-> i]

\* a pass that processed two items after its first prompt, with an empty reply
\* and a reply with content among them, has completed
C1_Witness ==
    /\ pc = "completed"
    /\ delivered = 2
    /\ \E i \in 1..Len(turns) : turns[i].reply = EmptyText
    /\ \E i \in 1..Len(turns) : Truthy(turns[i].reply)

\* C2: the payload of every request is a contiguous suffix of the history it
\* was built from, made of whole entries in the original order, its estimated
\* token sum is at most the ceiling, and a history at or below the ceiling is
\* sent whole.
C2_PayloadIsBoundedSuffix ==
    LET h == request.history
        m == request.messages
    IN  /\ \E k \in 0..Len(h) : m = SubSeq(h, k + 1, Len(h))
        /\ SumTokens(m) <= MAX_AZURE_CONTEXT_TOKENS
        /\ SumTokens(h) <= MAX_AZURE_CONTEXT_TOKENS => m = h

\* a request whose history exceeded the ceiling was sent with some, not all,
\* of its entries
C2_Witness ==
    /\ pc \in CallStates
    /\ SumTokens(request.history) > MAX_AZURE_CONTEXT_TOKENS
    /\ Len(request.messages) > 0
    /\ Len(request.messages) < Len(request.history)

\* C3: when the primary fails with a retryable error on history H, the
\* fallback's backend is invoked with exactly H, with no prompt re-appended.
C3_FallbackReceivesExactlyH ==
    [][(pc = "handoff" /\ pc' \in CallStates)
        => /\ request'.history = conversationHistory
           /\ conversationHistory' = conversationHistory]_vars

\* C4 (as claimed): a summarize item dequeued before any reply with content
\* fails with the precondition error and leaves the session unchanged.
C4_SummarizeBeforeReplyFails ==
    [][(pc = "nextItem" /\ delivered' = delivered + 1
        /\ message'.type = "summarize" /\ NoContentReturned)
        => /\ error' = "precondition"
           /\ pc' = "failed"
           /\ session' = session]_vars

\* C4 (amended): a summarize item is never processed with the handle unbound,
\* so the precondition error is never raised: whenever a summarize item is
\* dequeued its id is recorded, its prompt is appended and the backend is
\* called, also before any reply with content.
C4_SummarizeNeverFailsPrecondition ==
    /\ [](error # "precondition")
    /\ [][(pc = "nextItem" /\ delivered' = delivered + 1
           /\ message'.type = "summarize")
           => /\ memorySessionId # NoHandle
              /\ pc' = "summaryCall"
              /\ processingMessageIds' = Append(processingMessageIds, delivered')
              /\ conversationHistory' =
                    Append(conversationHistory,
                           Entry("user", buildSummaryPrompt(message')))
              /\ request'.history = conversationHistory']_vars

\* the request of a summarize item is in flight and no reply of the session
\* has had content
C4_Witness ==
    /\ pc = "summaryCall"
    /\ message.type = "summarize"
    /\ NoContentReturned

\* C5 (as claimed): whenever the handle is set, a backend call of the session
\* has already returned successfully.
C5_HandleOnlyAfterReply ==
    memorySessionId # NoHandle => ~NoCallReturned

\* C5 (amended): the handle is set exactly when a backend call of the session
\* has been issued: startSession binds it after the configuration test, in the
\* step that issues the first request, whether or not any call has returned.
C5_HandleBoundAtFirstRequest ==
    /\ memorySessionId # NoHandle <=> request # NoRequest
    /\ memorySessionId # NoHandle <=> conversationHistory # <<>>

\* the first request is in flight, nothing has returned, the handle is set
C5_Witness ==
    /\ pc = "initCall"
    /\ NoCallReturned
    /\ memorySessionId # NoHandle

\* C6: a step in which the backend returns an empty-content reply appends no
\* entry, leaves both counters unchanged, raises no error and takes the flow
\* to the await of the next work item.
C6_EmptyReplyChangesNothing ==
    [][(pc \in CallStates /\ Len(turns') = Len(turns)
        /\ turns'[Len(turns)].reply = EmptyText)
        => /\ conversationHistory' = conversationHistory
           /\ cumulativeInputTokens' = cumulativeInputTokens
           /\ cumulativeOutputTokens' = cumulativeOutputTokens
           /\ error' = error
           /\ pc' = "nextItem"]_vars

\* an item's call returned empty content and a later item was then processed
C6_Witness ==
    \E i \in 1..Len(turns) - 1 :
        /\ IsItemTurn(turns[i])
        /\ turns[i].reply = EmptyText
        /\ IsItemTurn(turns[i + 1])
        /\ turns[i + 1].reply # NoReply

\* the integer floor split of a reported total
Floor07(t) == (7 * t) \div 10
Floor03(t) == (3 * t) \div 10

\* sums of the floor splits over the turns whose reply had content
RECURSIVE SumFloor07(_)
SumFloor07(ts) ==
    IF ts = <<>> THEN 0
    ELSE (IF Truthy(Head(ts).reply) THEN Floor07(Head(ts).tokens) ELSE 0)
         + SumFloor07(Tail(ts))

RECURSIVE SumFloor03(_)
SumFloor03(ts) ==
    IF ts = <<>> THEN 0
    ELSE (IF Truthy(Head(ts).reply) THEN Floor03(Head(ts).tokens) ELSE 0)
         + SumFloor03(Tail(ts))

\* C7: each counter is the sum, over the replies with content, of
\* floor(0.7 * t) for the input counter and floor(0.3 * t) for the output
\* counter, t the total the backend reported (0 when absent).
C7_CountersAreFloorSplits ==
    /\ cumulativeInputTokens = SumFloor07(turns)
    /\ cumulativeOutputTokens = SumFloor03(turns)

\* C8: an abort never reaches the fallback: the step that raises it ends the
\* pass as aborted with the same agent, no request, no dequeue and no change
\* of the session, and nothing follows but a new startSession of the caller.
C8_AbortNeverFallsBack ==
    /\ [](error = "abort" => pc = "aborted")
    /\ [][(error' = "abort" /\ pc \in AwaitStates)
          => /\ pc' = "aborted"
             /\ agent' = agent
             /\ request' = request
             /\ delivered' = delivered
             /\ session' = session]_vars
    /\ [][pc = "aborted" => (pc' = "aborted" \/ agent' = "AzureOpenAI")]_vars

\* a pass of the primary, with a fallback agent set, was aborted
C8_Witness ==
    /\ pc = "aborted"
    /\ agent = "AzureOpenAI"
    /\ fallbackAgent["AzureOpenAI"] # "null"

\* C9: when a backend call fails and no backend remains, the pass fails with
\* that error and history and counters are what they were before the turn.
C9_FailedTurnLeavesSessionUnchanged ==
    (pc = "failed" /\ error \in {"remote", "provider"})
        => /\ conversationHistory = turnStart.history
           /\ cumulativeInputTokens = turnStart.input
           /\ cumulativeOutputTokens = turnStart.output

\* C10: an agent whose configuration lacks the key, the endpoint or the model
\* never awaits a backend: its startSession ends in the configuration error
\* without a request, a prompt or a handle.
C10_IncompleteConfigNeverCalls ==
    /\ [](pc \in AwaitStates
            => config.apiKey # "" /\ config.endpoint # "" /\ config.model # "")
    /\ [][(error' = "config" /\ pc \notin AwaitStates)
          => /\ pc' \in {"failed", "handoff"}
             /\ request' = request
             /\ conversationHistory' = conversationHistory
             /\ memorySessionId' = memorySessionId]_vars

\* the primary's pass on a fresh session failed on its configuration: nothing
\* was sent, appended or assigned
C10_Witness ==
    /\ pc = "failed"
    /\ error = "config"
    /\ agent = "AzureOpenAI"
    /\ request = NoRequest
    /\ conversationHistory = <<>>
    /\ memorySessionId = NoHandle

\* C11: once the conversational handle is set, no step of the flow (no later
\* pass, fallback pass, item or failure) changes it.
C11_HandleNeverChanges ==
    [][memorySessionId # NoHandle => memorySessionId' = memorySessionId]_vars

\* a later startSession ran its handle step on a session whose handle was
\* bound by the session's first pass
C11_Witness ==
    /\ pc = "initCall"
    /\ Len(turns) >= 2
    /\ turnStart.history # <<>>
    /\ memorySessionId = <<"AzureOpenAI", 1>>

\* C12: the session's prompt number never decreases from one state to the
\* next, whatever prompt_number the observation items carry.
C12_PromptNumberNeverDecreases ==
    [][lastPromptNumber' >= lastPromptNumber]_vars

\* s is a prefix of t
IsPrefix(s, t) == Len(s) <= Len(t) /\ s = SubSeq(t, 1, Len(s))

\* C13: no step shortens, reorders or rewrites the conversation history: the
\* history of every state has the history of the previous state as a prefix,
\* and the history a request was built from is the stored history, whole, also
\* when the payload sent was truncated.
C13_TruncationOnlyOnPayload ==
    /\ [][IsPrefix(conversationHistory, conversationHistory')]_vars
    /\ [](pc \in CallStates => request.history = conversationHistory)
    /\ [][(pc \in CallStates /\ pc' = "nextItem")
          => conversationHistory' \in
                {request.history,
                 Append(request.history,
                        Entry("assistant", turns'[Len(turns')].reply))}]_vars

\* a request was sent with a truncated payload and its reply was appended to
\* the whole history
C13_Witness ==
    /\ pc = "nextItem"
    /\ Len(request.messages) < Len(request.history)
    /\ Len(conversationHistory) = Len(request.history) + 1
    /\ IsPrefix(request.history, conversationHistory)

\* C14: the payload of every request contains the newest entry of the history
\* it was built from, whole, whatever that entry's estimated size.
C14_PayloadHasNewestEntry ==
    request # NoRequest
        => /\ request.messages # <<>>
           /\ request.messages[Len(request.messages)].content
                 = request.history[Len(request.history)].content

ItemCallStates == {"obsCall", "summaryCall"}

\* the most recent cwd among the items of the pass that the last turn of ts
\* belongs to, "" when none of them carried one
RECURSIVE LastCwdOf(_)
LastCwdOf(ts) ==
    IF ts = <<>> THEN ""
    ELSE LET t == ts[Len(ts)]
         IN  IF ~IsItemTurn(t) THEN ""
             ELSE IF t.item.cwd # "" THEN t.item.cwd
             ELSE LastCwdOf(SubSeq(ts, 1, Len(ts) - 1))

\* the processor calls that the first n turns stand for: one per item whose
\* call returned, empty reply or not, and one per first prompt of a pass whose
\* reply had content
RECURSIVE ExpectedProcessed(_)
ExpectedProcessed(n) ==
    IF n = 0 THEN <<>>
    ELSE LET t == turns[n]
         IN  ExpectedProcessed(n - 1) \o
             (IF IsItemTurn(t) /\ t.reply # NoReply
              THEN <<[content |-> t.reply, tokensUsed |-> t.tokens,
                      timestamp |-> <<t.item.timestamp>>,
                      cwd |-> LastCwdOf(SubSeq(turns, 1, n))]>>
              ELSE IF ~IsItemTurn(t) /\ Truthy(t.reply)
              THEN <<[content |-> t.reply, tokensUsed |-> t.tokens,
                      timestamp |-> <<>>, cwd |-> ""]>>
              ELSE <<>>)

C19_AppendedItemsAreRecorded ==
    /\ [](\A i \in 1..Len(turns) :
            IsItemTurn(turns[i])
                => \E k \in 1..Len(processingMessageIds) :
                      processingMessageIds[k] = turns[i].item._persistentId)
    /\ [](pc \in ItemCallStates
            => \E k \in 1..Len(processingMessageIds) :
                  processingMessageIds[k] = message._persistentId)
    /\ [][IsPrefix(processingMessageIds, processingMessageIds')]_vars
    /\ [][delivered' = delivered + 1
          => processingMessageIds'
                = Append(processingMessageIds, message'._persistentId)]_vars

\* the call of the second item of a session is in flight and both ids are
\* recorded
C19_Witness ==
    /\ pc \in ItemCallStates
    /\ turns[Len(turns)].reply = NoReply
    /\ message._persistentId = 2
    /\ processingMessageIds = <<1, 2>>

\* the turns of the pass that is running or ran last: the suffix of the turn
\* log from the last first-prompt of a pass on
RECURSIVE PassTurns(_)
PassTurns(ts) ==
    IF ts = <<>> THEN <<>>
    ELSE IF ~IsItemTurn(ts[Len(ts)]) THEN <<ts[Len(ts)]>>
    ELSE Append(PassTurns(SubSeq(ts, 1, Len(ts) - 1)), ts[Len(ts)])

Running == pc \in AwaitStates \cup {"handoff"}

RequestsOf(kind) == SelectSeq(requests, LAMBDA r : r.kind = kind)

\* C16: no handler invocation rejects, whatever the worker answers to the
\* context, init, observation, summarize and complete requests, and a prompt
\* whose context request failed is left as it was.
C16_HandlersFailOpen ==
    /\ thrown = FALSE
    /\ \A i \in 1..Len(prompts) :
          ~prompts[i].ok => prompts[i].result = prompts[i].text

\* the context request of a prompt, an observation request and a complete
\* request have failed, every handler has returned and the prompt is unchanged
C16_Witness ==
    /\ awaiting = {}
    /\ thrown = FALSE
    /\ \A k \in {"inject", "observation", "complete"} :
          \E i \in 1..Len(requests) :
              requests[i].kind = k /\ requests[i].state = "failed"
    /\ prompts # <<>>
    /\ prompts[1].result = PromptText

\* C20: session.idle sends a summarize request iff the last assistant text of
\* the session is non-blank and differs from the text last summarized with
\* success; that text changes only in the step in which a summarize request
\* succeeds, to the text of that request; and no two summarize requests that
\* succeeded one after the other carry the same text.
C20_SummarizeOnlyNewText ==
    /\ [][(events' = events + 1 /\ Len(requests') = Len(requests) + 1)
          => (requests'[Len(requests')].kind = "summarize"
                <=> /\ "s1" \in DOMAIN sessionLastAssistant
                    /\ NonBlank(sessionLastAssistant["s1"])
                    /\ MapGet(sessionLastAssistant, "s1")
                          # MapGet(sessionLastSummarized, "s1"))]_vars
    /\ [][sessionLastSummarized' # sessionLastSummarized
          => \E i \in 1..Len(requests) :
                /\ requests[i].kind = "summarize"
                /\ requests[i].state = "pending"
                /\ requests'[i].state = "ok"
                /\ sessionLastSummarized'
                      = MapSet(sessionLastSummarized, requests[i].sid,
                               requests[i].payload)]_vars
    /\ [](LET ok == SelectSeq(RequestsOf("summarize"),
                              LAMBDA r : r.state = "ok")
          IN  \A i \in 1..Len(ok) - 1 : ok[i].payload # ok[i + 1].payload)

\* the requests sent while handling event number e, in the order they were sent
RequestsOfEvent(e) == SelectSeq(requests, LAMBDA r : r.event = e)

\* C21: a session.idle event with a session id sends the complete request of
\* the session, at once when no summarize is due and otherwise only when its
\* summarize request has settled, with success or not: the requests of the
\* event are the complete alone, the summarize still pending, or the settled
\* summarize followed by the complete.  A session.deleted event with a session
\* id sends the complete request and nothing else.
C21_CompleteAfterSummarize ==
    /\ [](\A e \in 1..events :
            LET rs == RequestsOfEvent(e)
            IN  /\ (rs # <<>> /\ rs[1].handler = "session.idle")
                      => \/ Len(rs) = 1 /\ rs[1].kind = "complete"
                         \/ /\ Len(rs) = 1
                            /\ rs[1].kind = "summarize"
                            /\ rs[1].state = "pending"
                         \/ /\ Len(rs) = 2
                            /\ rs[1].kind = "summarize"
                            /\ rs[1].state \in {"ok", "failed"}
                            /\ rs[2].kind = "complete"
                            /\ rs[2].sid = rs[1].sid
                /\ (rs # <<>> /\ rs[1].handler = "session.deleted")
                      => Len(rs) = 1 /\ rs[1].kind = "complete")
    /\ [][\A sessionId \in SessionIds :
            /\ OnSessionIdle(sessionId)
                  => /\ Len(requests') = Len(requests) + 1
                     /\ requests'[Len(requests')].handler = "session.idle"
                     /\ requests'[Len(requests')].sid = sessionId
            /\ OnSessionDeleted(sessionId)
                  => /\ Len(requests') = Len(requests) + 1
                     /\ requests'[Len(requests')].handler = "session.deleted"
                     /\ requests'[Len(requests')].kind = "complete"
                     /\ requests'[Len(requests')].sid = sessionId]_vars

\* the summarize request of a session.idle event has failed and the complete
\* request of the same event has been sent after it
C21_Witness ==
    \E e \in 1..events :
        LET rs == RequestsOfEvent(e)
        IN  /\ Len(rs) = 2
            /\ rs[1].handler = "session.idle"
            /\ rs[1].kind = "summarize"
            /\ rs[1].state = "failed"
            /\ rs[2].kind = "complete"

\* C22: with every worker request succeeding, the events about one user
\* message make the plugin send at most one session-init request for it
C22_InitAtMostOnce == Len(RequestsOf("init")) <= 1

\* C23: in any order of message.updated and message.part.updated events,
\* when the assistant message of the session holds non-empty accumulated text
\* the last-assistant text of the session is that text, and the
\* last-assistant text of the session is only ever set to the accumulated
\* text of the assistant message, never to the text of the user message
C23_LastAssistantIsAccumulatedText ==
    /\ [](GetText(messageTextCache, AssistantMessage) # <<>>
             => MapGet(sessionLastAssistant, "s1")
                    = <<GetText(messageTextCache, AssistantMessage)>>)
    /\ [][sessionLastAssistant' # sessionLastAssistant
             => /\ AssistantMessage \in DOMAIN messageRoleCache
                /\ MapGet(sessionLastAssistant', "s1")
                       = <<GetText(messageTextCache', AssistantMessage)>>]_vars

\* C24: for calls with distinct callIDs whose hooks interleave in any order,
\* the before-hook of call c stores its args under c and touches no other
\* entry; the after-hook of c posts an observation whose tool_input is the
\* parsed entry of c, or the parsed output metadata when c has no entry, and
\* removes the entry of c and no other; no other step changes the cache, so a
\* call whose observation was posted has no entry, whether the request is
\* pending, has succeeded or has failed
C24_ObservationCarriesOwnArgs ==
    /\ [](\A c \in CallIds : Finished(c) => c \notin DOMAIN toolInputCache)
    /\ [][\A c \in CallIds :
            /\ \A args \in ToolArgs :
                  OnToolExecuteBefore(c, args)
                      => /\ MapGet(toolInputCache', c)
                               = <<Coalesce(args, EmptyObject)>>
                         /\ \A d \in CallIds \ {c} :
                               MapGet(toolInputCache', d)
                                   = MapGet(toolInputCache, d)
            /\ \A metadata \in ToolMetadata :
                  OnToolExecuteAfter(c, metadata)
                      => LET r == requests'[Len(requests')]
                         IN  /\ Len(requests') = Len(requests) + 1
                             /\ r.kind = "observation"
                             /\ r.payload.callID = c
                             /\ r.payload.tool_input =
                                   IF MapGet(toolInputCache, c) # <<>>
                                   THEN parseToolInput(toolInputCache[c])
                                   ELSE parseToolInput(
                                            Coalesce(metadata, EmptyObject))
                             /\ c \notin DOMAIN toolInputCache'
                             /\ \A d \in CallIds \ {c} :
                                   MapGet(toolInputCache', d)
                                       = MapGet(toolInputCache, d)
            /\ observationSettles
                  => toolInputCache' = toolInputCache]_vars

\* both calls have started, the after-hook of the first has posted the args
\* of the first, the request has failed, and only the entry of the second
\* call is left in the cache
C24_Witness ==
    /\ "c1" \notin DOMAIN toolInputCache
    /\ MapGet(toolInputCache, "c2") = <<EmptyObject>>
    /\ \E i \in 1..Len(requests) :
          /\ requests[i].kind = "observation"
          /\ requests[i].payload.callID = "c1"
          /\ requests[i].payload.tool_input = Object("args")
          /\ requests[i].payload.metadata = Object("meta")
          /\ requests[i].state = "failed"

====
